---- MODULE Spec2Model ----
(***************************************************************************)
(* A model of the two report scripts of forms-email-automation:            *)
(*   simple_forms_automation.py   (MeetingFormsReporter, the daily run)    *)
(*   weekly_instructor_reports.py (ConfigBasedInstructorReporter, weekly)  *)
(* A run is a sequential pipeline: construct the reporter, fetch the       *)
(* sheet, normalise it, (weekly: filter, group by instructor), aggregate,  *)
(* render the artifacts, send the email(s).  The environment (sheet        *)
(* contents, config files, connectivity, SMTP outcomes) is drawn from      *)
(* small sets.                                                             *)
(***************************************************************************)
EXTENDS Integers, Sequences, FiniteSets, TLC

VARIABLES
    script,               \* "daily" | "weekly": which script's main() runs
    values,               \* sheet.get_all_values(): <<header, row, ...>>
    source,               \* "ok" | "connect_failed" | "fetch_failed": the sheet service
    csv_file,             \* instructor_mappings.csv on disk
    json_file,            \* instructor_mappings.json on disk
    files,                \* transient artifact files on disk (names)
    instructor_mappings,  \* self.instructor_mappings
    config_metadata,      \* self.config_metadata
    pc,                   \* position of the run
    df,                   \* result of load_data
    weekly_df,            \* result of get_weekly_data
    instructor_groups,    \* result of group_by_course_section (insertion order)
    missing_config,       \* the "not configured" diagnostic of the last grouping
    idx,                  \* position of the per-instructor loop
    cur,                  \* locals of the iteration / of the daily run
    success_count,        \* run_weekly_report's success_count
    log,                  \* logging records emitted so far: <<level, message>>
    attempts,             \* send calls made so far (history)
    outbox,               \* messages handed to the mail server (history)
    run,                  \* number of the current invocation
    config_at_start,      \* the config files the invocation found (history)
    first_run,            \* what the first invocation did (history)
    infer_format          \* whether the installed pandas parses a column by one
                          \* format guessed from its first value (2.0 and later)

vars == <<script, values, source, csv_file, json_file, files,
          instructor_mappings, config_metadata, pc, df, weekly_df,
          instructor_groups, missing_config, idx, cur, success_count, log,
          attempts, outbox, run, config_at_start, first_run, infer_format>>

----------------------------------------------------------------------------
(* Bounds of the model                                                     *)

MaxRows == 2          \* data rows of a generated sheet
MaxCfgRows == 2       \* rows of a generated instructor_mappings.csv

----------------------------------------------------------------------------
(* column_mapping, identical in both scripts                               *)

column_mapping ==
    [date         |-> "date",
     time         |-> "time",
     first_name   |-> "Student First Name",
     last_name    |-> "Student Last Name",
     course       |-> "Course Section",
     meeting_type |-> "Meeting Type",
     topic        |-> "Topic"]

AllCols == {column_mapping[k] : k \in DOMAIN column_mapping}

(* Time is counted in minutes from 00:00 of day 0; day d is 01/d/2024.     *)
Day == 24 * 60

DateOf(ts) == ts \div Day          \* Timestamp.date()
HourOf(ts) == (ts % Day) \div 60    \* Timestamp.hour

(* pandas' NaT, the result of an errors='coerce' parse that failed         *)
NaT == -1

(* datetime.now(): 01/16/2024 08:00, fixed for a run                       *)
Now == 16 * Day + 8 * 60

(* timedelta(days=7)                                                       *)
WeekDays == 7

----------------------------------------------------------------------------
(* Strings.  str.strip() on the cell texts the model generates             *)

strip(s) ==
    CASE s = " 01/14/2024 " -> "01/14/2024"
      [] s = " nan "        -> "nan"
      [] s = "  "           -> ""
      [] s = " A"           -> "A"
      [] OTHER              -> s

(* str.lower() on the 'active' cells the model generates                   *)
lower(s) ==
    CASE s = "FALSE" -> "false"
      [] s = "False" -> "false"
      [] s = "TRUE"  -> "true"
      [] s = "True"  -> "true"
      [] OTHER       -> s

(* What strptime reads from a date text in %m/%d/%Y and a time text in     *)
(* %H:%M: the day number and the minute of the day.                        *)
MdyDates == {<<"01/02/2024", 2>>, <<"01/09/2024", 9>>, <<"01/14/2024", 14>>,
             <<"01/15/2024", 15>>, <<"01/16/2024", 16>>}
HmTimes == {<<"00:00", 0>>, <<"07:00", 7 * 60>>, <<"09:00", 9 * 60>>,
            <<"14:30", 14 * 60 + 30>>}

(* Texts only the flexible parser reads: ISO dates, 12-hour times.         *)
IsoDates == {<<"2024-01-13", 13>>, <<"2024-01-15", 15>>}
AmPmTimes == {<<"2:30 PM", 14 * 60 + 30>>}

(* pd.to_datetime(s, format='%m/%d/%Y %H:%M', errors='coerce'), one text  *)
StrictTable ==
    {<<d[1] \o " " \o t[1], d[2] * Day + t[2]>> : d \in MdyDates, t \in HmTimes}

strict_parse(s) ==
    IF \E e \in StrictTable : e[1] = s
    THEN (CHOOSE e \in StrictTable : e[1] = s)[2]
    ELSE NaT

(* pd.to_datetime(s, errors='coerce'), one text: everything the strict     *)
(* format reads, the other date and time notations, a date alone, and      *)
(* surrounding blanks                                                      *)
FlexDates == MdyDates \cup IsoDates
FlexTimes == HmTimes \cup AmPmTimes
FlexTable ==
    {<<d[1] \o " " \o t[1], d[2] * Day + t[2]>> : d \in FlexDates, t \in FlexTimes}
    \cup {<<d[1], d[2] * Day>> : d \in FlexDates}
    \cup {<<d[1] \o " ", d[2] * Day>> : d \in FlexDates}
    \cup {<<" " \o d[1] \o "  ", d[2] * Day>> : d \in FlexDates}
    \cup {<<d[1] \o "   ", d[2] * Day>> : d \in FlexDates}

flexible_parse(s) ==
    IF \E e \in FlexTable : e[1] = s
    THEN (CHOOSE e \in FlexTable : e[1] = s)[2]
    ELSE NaT

(* The format pandas 2 guesses from a text it can read: the notation of    *)
(* the date, that of the time, and the blanks around them                  *)
FlexFormats ==
    {<<d[1] \o " " \o t[1], "%m/%d/%Y %H:%M">> : d \in MdyDates, t \in HmTimes}
    \cup {<<d[1] \o " " \o t[1], "%m/%d/%Y %I:%M %p">> : d \in MdyDates, t \in AmPmTimes}
    \cup {<<d[1] \o " " \o t[1], "%Y-%m-%d %H:%M">> : d \in IsoDates, t \in HmTimes}
    \cup {<<d[1] \o " " \o t[1], "%Y-%m-%d %I:%M %p">> : d \in IsoDates, t \in AmPmTimes}
    \cup {<<d[1], "%m/%d/%Y">> : d \in MdyDates}
    \cup {<<d[1], "%Y-%m-%d">> : d \in IsoDates}
    \cup {<<d[1] \o " ", "%m/%d/%Y ">> : d \in MdyDates}
    \cup {<<d[1] \o " ", "%Y-%m-%d ">> : d \in IsoDates}
    \cup {<<d[1] \o "   ", "%m/%d/%Y   ">> : d \in MdyDates}
    \cup {<<d[1] \o "   ", "%Y-%m-%d   ">> : d \in IsoDates}
    \cup {<<" " \o d[1] \o "  ", " %m/%d/%Y  ">> : d \in MdyDates}
    \cup {<<" " \o d[1] \o "  ", " %Y-%m-%d  ">> : d \in IsoDates}

(* guess_datetime_format: "" when no format is guessed                     *)
guess_datetime_format(s) ==
    IF \E e \in FlexFormats : e[1] = s
    THEN (CHOOSE e \in FlexFormats : e[1] = s)[2]
    ELSE ""

(* The position of the first text of a column that is not empty, or 0      *)
first_non_null(texts) ==
    IF \A i \in 1..Len(texts) : texts[i] = "" THEN 0
    ELSE CHOOSE i \in 1..Len(texts) :
             texts[i] /= "" /\ \A j \in 1..(i - 1) : texts[j] = ""

(* pd.to_datetime(column, errors='coerce') without a format.  Before       *)
(* pandas 2.0 every text is parsed on its own; from 2.0 on the format is   *)
(* guessed from the first non-null text and, when one is guessed, a text   *)
(* in another format becomes NaT                                           *)
to_datetime(texts) ==
    LET k == first_non_null(texts)
        fmt == IF k = 0 THEN "" ELSE guess_datetime_format(texts[k])
    IN [i \in 1..Len(texts) |->
           IF infer_format /\ fmt /= "" /\ guess_datetime_format(texts[i]) /= fmt
           THEN NaT
           ELSE flexible_parse(texts[i])]

----------------------------------------------------------------------------
(* Sequences                                                               *)

Range(s) == {s[i] : i \in 1..Len(s)}

(* f with key k set to v (a new column of a row)                           *)
WithCol(f, k, v) == [c \in DOMAIN f \cup {k} |-> IF c = k THEN v ELSE f[c]]

(* f without key k (DataFrame.drop of a column, on one row)                *)
WithoutCol(f, k) == [c \in DOMAIN f \ {k} |-> f[c]]

SeqsUpTo(S, n) == UNION {[1..k -> S] : k \in 0..n}

----------------------------------------------------------------------------
(* DataFrames: the column names and the rows (each a function on them)     *)

DataFrame(rows, columns) == [kind |-> "df", columns |-> columns, rows |-> rows]
EmptyFrame == DataFrame(<<>>, {})                    \* pd.DataFrame()
None == [kind |-> "None"]

IsNone(x) == x.kind = "None"
empty(d) == d.rows = <<>> \/ d.columns = {}          \* DataFrame.empty
len(d) == Len(d.rows)

(* A cell is null (NaN/NaT) only in the parsed 'datetime' column: the      *)
(* sheet's own cells are strings, and '' is not null                       *)
IsNull(r, c) == c = "datetime" /\ r[c] = NaT

(* df.dropna(subset=['datetime'])                                          *)
dropna_datetime(rows) == SelectSeq(rows, LAMBDA r : r["datetime"] /= NaT)

(* df.dropna(how='all'): drops the rows all of whose cells are null        *)
dropna_all(rows) ==
    SelectSeq(rows, LAMBDA r : \E c \in DOMAIN r : ~IsNull(r, c))

----------------------------------------------------------------------------
(* connect_to_sheets, both scripts                                         *)

connect_to_sheets(src) ==
    IF src = "connect_failed"
    THEN [sheet |-> FALSE, log |-> <<<<"error", "Failed to connect to Google Sheets">>>>]
    ELSE [sheet |-> TRUE, log |-> <<<<"info", "Connected to sheet">>>>]

----------------------------------------------------------------------------
(* MeetingFormsReporter.load_data (simple_forms_automation.py)             *)

(* lines 99-100: the date and time cells stripped                          *)
strip_date_time(r) ==
    [c \in DOMAIN r |->
        IF c \in {column_mapping.date, column_mapping.time} THEN strip(r[c]) ELSE r[c]]

(* date_not_empty reading only dates written with slashes                  *)
date_not_empty_slashed(r) ==
    r[column_mapping.date] \in {d[1] : d \in MdyDates}

(* lines 103-104: the rows whose date is not empty                         *)
date_not_empty(r) ==
    /\ Len(r[column_mapping.date]) > 0
    /\ r[column_mapping.date] \notin {"", "nan", "None", "NaN"}

(* date_time_str joining the date and the time without the space          *)
date_time_str_unspaced(r) ==
    r[column_mapping.date] \o
        (IF r[column_mapping.time] = "" THEN "00:00" ELSE r[column_mapping.time])

(* line 114: the text handed to the parser                                 *)
date_time_str(r) ==
    r[column_mapping.date] \o " " \o
        (IF r[column_mapping.time] = "" THEN "00:00" ELSE r[column_mapping.time])

(* lines 115-124: the strict parse, and the flexible one for the texts it  *)
(* did not read                                                            *)
parse_daily(s) ==
    IF strict_parse(s) /= NaT THEN strict_parse(s) ELSE flexible_parse(s)

(* lines 98-124: the rows with their 'date_time_str' and 'datetime'        *)
parsed_rows_daily(rows) ==
    LET cleaned == SelectSeq([i \in 1..Len(rows) |-> strip_date_time(rows[i])],
                             date_not_empty)
        texts == [i \in 1..Len(cleaned) |-> date_time_str(cleaned[i])]
        strict == [i \in 1..Len(cleaned) |-> strict_parse(texts[i])]
        \* lines 118-124: the texts the strict format left null, parsed again
        null_mask == {i \in 1..Len(cleaned) : strict[i] = NaT}
        pos(i) == Cardinality({j \in null_mask : j <= i})
        retry == to_datetime([k \in 1..Cardinality(null_mask) |->
                                 texts[CHOOSE j \in null_mask : pos(j) = k]])
    IN [i \in 1..Len(cleaned) |->
           WithCol(WithCol(cleaned[i], "date_time_str", texts[i]),
                   "datetime",
                   IF i \in null_mask THEN retry[pos(i)] ELSE strict[i])]

(* lines 67-164: the value returned and the records logged                 *)
load_data_daily(vals, src) ==
    LET conn == connect_to_sheets(src) IN
    IF ~conn.sheet THEN [ret |-> None, log |-> conn.log]
    ELSE IF src = "fetch_failed"
    THEN [ret |-> None, log |-> conn.log \o <<<<"error", "Error loading data">>>>]
    ELSE IF Len(vals) < 2
    THEN [ret |-> EmptyFrame,
          log |-> conn.log \o <<<<"warning", "Sheet has no data rows">>>>]
    ELSE IF column_mapping.date \notin vals[1]
    THEN [ret |-> EmptyFrame,
          log |-> conn.log \o <<<<"error", "Date column not found">>>>]
    ELSE IF column_mapping.time \notin vals[1]
    THEN [ret |-> EmptyFrame,
          log |-> conn.log \o <<<<"error", "Time column not found">>>>]
    ELSE
    LET parsed == parsed_rows_daily(Tail(vals))
        valid == dropna_datetime(parsed)
        failed == IF Len(valid) < Len(parsed)
                  THEN <<<<"warning", "Failed to parse dates">>>> ELSE <<>>
        kept == dropna_all(valid)
        out == [i \in 1..Len(kept) |-> WithoutCol(kept[i], "date_time_str")]
    IN IF Len(valid) = 0
       THEN [ret |-> EmptyFrame,
             log |-> conn.log \o failed \o <<<<"error", "No valid dates parsed">>>>]
       ELSE [ret |-> DataFrame(out, vals[1] \cup {"datetime"}),
             log |-> conn.log \o failed
                       \o (IF Len(out) > 0
                           THEN <<<<"info", "Successfully loaded meetings">>>> ELSE <<>>)]

----------------------------------------------------------------------------
(* ConfigBasedInstructorReporter.load_data (weekly_instructor_reports.py)  *)

(* lines 184-190: the 'datetime' column, when there is a date column       *)
parsed_rows_weekly(rows, columns) ==
    IF column_mapping.date \in columns /\ column_mapping.time \in columns
    THEN LET parsed == to_datetime([i \in 1..Len(rows) |->
                                       rows[i][column_mapping.date] \o " "
                                         \o rows[i][column_mapping.time]])
         IN dropna_datetime(
                [i \in 1..Len(rows) |-> WithCol(rows[i], "datetime", parsed[i])])
    ELSE IF column_mapping.date \in columns
    THEN LET parsed == to_datetime([i \in 1..Len(rows) |->
                                       rows[i][column_mapping.date]])
         IN dropna_datetime(
                [i \in 1..Len(rows) |-> WithCol(rows[i], "datetime", parsed[i])])
    ELSE rows

columns_weekly(columns) ==
    IF column_mapping.date \in columns THEN columns \cup {"datetime"} ELSE columns

(* lines 164-200: the value returned and the records logged                *)
load_data_weekly(vals, src) ==
    LET conn == connect_to_sheets(src) IN
    IF ~conn.sheet THEN [ret |-> None, log |-> conn.log]
    ELSE IF src = "fetch_failed"
    THEN [ret |-> None, log |-> conn.log \o <<<<"error", "Error loading data">>>>]
    ELSE IF Len(vals) < 2
    THEN [ret |-> EmptyFrame,
          log |-> conn.log \o <<<<"warning", "Sheet has no data rows">>>>]
    ELSE [ret |-> DataFrame(dropna_all(parsed_rows_weekly(Tail(vals), vals[1])),
                            columns_weekly(vals[1])),
          log |-> conn.log \o <<<<"info", "Loaded meeting records">>>>]

----------------------------------------------------------------------------
(* The instructor mapping configuration                                    *)

(* A config file on disk: absent, present but unreadable (read_csv or      *)
(* json.load raises), or present with content                              *)
Absent == [state |-> "absent"]
Unreadable == [state |-> "unreadable"]
CsvFile(rows) == [state |-> "ok", rows |-> rows]
JsonFile(semester, last_updated, course_mappings) ==
    [state |-> "ok", semester |-> semester, last_updated |-> last_updated,
     course_mappings |-> course_mappings]

CsvRow(section, name, email, course, active) ==
    [course_section |-> section, instructor_name |-> name, email |-> email,
     course_name |-> course, active |-> active]

(* create_sample_config's sample_data, without its header row              *)
sample_data ==
    << CsvRow("M/W/F 12:00", "Dr. Smith", "dr.smith@university.edu", "General Chemistry I", "true"),
       CsvRow("M/W 5:30 PM", "Prof. Johnson", "prof.johnson@university.edu", "Organic Chemistry", "true"),
       CsvRow("T/R 8:00 AM", "Dr. Wilson", "dr.wilson@university.edu", "Physical Chemistry", "true"),
       CsvRow("T/R 9:30 AM Nyquist", "Prof. Nyquist", "prof.nyquist@university.edu", "Analytical Chemistry", "true"),
       CsvRow("T/R 9:30 Stefanile", "Dr. Stefanile", "dr.stefanile@university.edu", "Biochemistry", "true"),
       CsvRow("T/R 11:00 AM", "Dr. Martinez", "dr.martinez@university.edu", "Inorganic Chemistry", "true"),
       CsvRow("T/R 3:30 PM", "Prof. Chen", "prof.chen@university.edu", "Advanced Chemistry", "true"),
       CsvRow("T/R 5:30 PM", "Dr. Brown", "dr.brown@university.edu", "Chemistry Lab", "true") >>

(* A create_sample_config that writes the header row alone                 *)
create_sample_config_header_only == CsvFile(<<>>)

(* create_sample_config: the file it writes                                *)
create_sample_config == CsvFile(sample_data)

(* pd.read_csv's value for a cell of the 'active' column: a bool when      *)
(* every filled cell of the column reads as one, NaN for an empty cell,    *)
(* the text otherwise                                                      *)
BoolTexts == {"true", "True", "TRUE", "false", "False", "FALSE"}

active_value(rows, i) ==
    LET cell == rows[i].active
        bools == \A j \in 1..Len(rows) : rows[j].active \in BoolTexts \cup {""}
    IN IF cell = "" THEN [t |-> "float", v |-> "nan"]
       ELSE IF bools
       THEN [t |-> "bool", v |-> IF lower(cell) = "true" THEN "True" ELSE "False"]
       ELSE [t |-> "str", v |-> cell]

(* Python's truth value and str() of such a value                          *)
truthy(x) == ~(x.t = "bool" /\ x.v = "False") /\ ~(x.t = "str" /\ x.v = "")
str(x) == x.v

(* line 70: whether a CSV row is taken as active                           *)
csv_row_active(rows, i) ==
    truthy(active_value(rows, i)) /\ lower(str(active_value(rows, i))) /= "false"

(* lines 71-75: .strip() of an empty (NaN) cell raises AttributeError      *)
csv_row_raises(r) ==
    \E k \in {"course_section", "instructor_name", "email", "course_name"} : r[k] = ""

(* lines 68-77: the first active row that raises, or 0                     *)
csv_first_raise(rows) ==
    LET bad == {i \in 1..Len(rows) : csv_row_active(rows, i) /\ csv_row_raises(rows[i])}
    IN IF bad = {} THEN 0 ELSE CHOOSE i \in bad : \A j \in bad : i <= j

(* lines 68-77: the mappings dict built from the rows, a later row of the  *)
(* same section replacing an earlier one                                   *)
csv_mappings(rows) ==
    LET act == {i \in 1..Len(rows) : csv_row_active(rows, i)}
        keys == {strip(rows[i].course_section) : i \in act}
        last(k) == CHOOSE i \in act :
                      /\ strip(rows[i].course_section) = k
                      /\ \A j \in act : strip(rows[j].course_section) = k => j <= i
    IN [k \in keys |->
           [instructor  |-> strip(rows[last(k)].instructor_name),
            email       |-> strip(rows[last(k)].email),
            course_name |-> strip(rows[last(k)].course_name),
            active      |-> TRUE]]

Dict(m) == [kind |-> "dict", map |-> m]
EmptyDict == Dict([k \in {} |-> TRUE])

(* Python's `not x` for a dict or None                                     *)
falsy(x) == IsNone(x) \/ DOMAIN x.map = {}

NoMetadata == [k \in {} |-> ""]

(* A load_instructor_config that takes a CSV file it cannot read for a     *)
(* missing one, and writes the sample file over it                         *)
load_instructor_config_rewrites(csv, json, metadata) ==
    IF csv.state = "ok" /\ csv_first_raise(csv.rows) = 0
    THEN [ret |-> Dict(csv_mappings(csv.rows)), metadata |-> metadata, csv |-> csv,
          log |-> <<<<"info", "Loaded active instructor mappings from CSV">>>>]
    ELSE IF csv.state = "ok"
    THEN [ret |-> None, metadata |-> metadata, csv |-> csv,
          log |-> <<<<"warning", "Error reading CSV config">>>>]
    ELSE IF csv.state = "absent" /\ json.state = "unreadable"
    THEN [ret |-> None, metadata |-> metadata, csv |-> csv,
          log |-> <<<<"warning", "Error reading JSON config">>>>]
    ELSE IF csv.state = "absent" /\ json.state = "ok"
    THEN [ret |-> Dict(json.course_mappings),
          metadata |-> [semester |-> json.semester, last_updated |-> json.last_updated],
          csv |-> csv,
          log |-> <<<<"info", "Loaded instructor mappings from JSON">>>>]
    ELSE [ret |-> EmptyDict, metadata |-> metadata, csv |-> CsvFile(sample_data),
          log |-> <<<<"warning", "No instructor mapping config file found">>,
                    <<"info", "Created sample instructor_mappings.csv file">>>>]

(* ConfigBasedInstructorReporter.load_instructor_config: the value         *)
(* returned, self.config_metadata and instructor_mappings.csv after the    *)
(* call, and the records logged                                            *)
load_instructor_config(csv, json, metadata) ==
    IF csv.state /= "absent"
    THEN IF csv.state = "unreadable" \/ csv_first_raise(csv.rows) /= 0
         THEN [ret |-> None, metadata |-> metadata, csv |-> csv,
               log |-> <<<<"warning", "Error reading CSV config">>>>]
         ELSE [ret |-> Dict(csv_mappings(csv.rows)), metadata |-> metadata, csv |-> csv,
               log |-> <<<<"info", "Loaded active instructor mappings from CSV">>>>]
    ELSE IF json.state /= "absent"
    THEN IF json.state = "unreadable"
         THEN [ret |-> None, metadata |-> metadata, csv |-> csv,
               log |-> <<<<"warning", "Error reading JSON config">>>>]
         ELSE [ret |-> Dict(json.course_mappings),
               metadata |-> [semester |-> json.semester,
                             last_updated |-> json.last_updated],
               csv |-> csv,
               log |-> <<<<"info", "Loaded instructor mappings from JSON">>>>]
    ELSE [ret |-> EmptyDict, metadata |-> metadata, csv |-> create_sample_config,
          log |-> <<<<"warning", "No instructor mapping config file found">>,
                    <<"info", "Created sample instructor_mappings.csv file">>>>]

(* get_instructor_for_section: the mapping's entry, or None                *)
get_instructor_for_section(mappings, course_section) ==
    IF strip(course_section) \in DOMAIN mappings.map
    THEN mappings.map[strip(course_section)]
    ELSE None

----------------------------------------------------------------------------
(* ConfigBasedInstructorReporter.get_weekly_data                           *)

week_ago == Now - WeekDays * Day

(* get_weekly_data keeping the whole day that began the week               *)
get_weekly_data_by_date(d) ==
    IF IsNone(d) \/ empty(d) THEN [raised |-> FALSE, ret |-> d]
    ELSE IF "datetime" \notin d.columns THEN [raised |-> TRUE, ret |-> None]
    ELSE [raised |-> FALSE,
          ret |-> DataFrame(SelectSeq(d.rows,
                                      LAMBDA r : DateOf(r["datetime"]) >= DateOf(week_ago)),
                            d.columns)]

(* lines 202-212: df['datetime'] raises KeyError without that column       *)
get_weekly_data(d) ==
    IF IsNone(d) \/ empty(d) THEN [raised |-> FALSE, ret |-> d]
    ELSE IF "datetime" \notin d.columns THEN [raised |-> TRUE, ret |-> None]
    ELSE [raised |-> FALSE,
          ret |-> DataFrame(SelectSeq(d.rows, LAMBDA r : r["datetime"] >= week_ago),
                            d.columns)]

----------------------------------------------------------------------------
(* ConfigBasedInstructorReporter.group_by_course_section                   *)

RECURSIVE unique(_)
(* Series.unique(): the distinct values in order of first appearance       *)
unique(s) ==
    IF s = <<>> THEN <<>>
    ELSE LET u == unique(SubSeq(s, 1, Len(s) - 1))
         IN IF s[Len(s)] \in Range(u) THEN u ELSE Append(u, s[Len(s)])

column(d, c) == [i \in 1..Len(d.rows) |-> d.rows[i][c]]

(* len(df.groupby([first_name, last_name])): the distinct name pairs       *)
student_pairs(rows) ==
    {<<r[column_mapping.first_name], r[column_mapping.last_name]>> : r \in Range(rows)}

(* the position of the bundle keyed by name, or 0                          *)
group_index(groups, name) ==
    IF \E i \in 1..Len(groups) : groups[i].name = name
    THEN CHOOSE i \in 1..Len(groups) : groups[i].name = name
    ELSE 0

(* An add_section that appends every record of the frame, whatever its     *)
(* section                                                                 *)
add_section_unfiltered(groups, d, course_section, info) ==
    LET at == group_index(groups, info.instructor)
        fresh == [name |-> info.instructor, email |-> info.email,
                  course_name |-> info.course_name, sections |-> <<>>,
                  data |-> <<>>, total_meetings |-> 0, unique_students |-> 0]
        base == IF at = 0 THEN Append(groups, fresh) ELSE groups
        k == IF at = 0 THEN Len(base) ELSE at
        data == base[k].data \o d.rows
    IN [base EXCEPT ![k] =
           [@ EXCEPT !.sections = Append(@, course_section),
                     !.data = data,
                     !.total_meetings = Len(data),
                     !.unique_students = Cardinality(student_pairs(data))]]

(* An add_section that keeps only the records of the section added last    *)
add_section_replacing(groups, d, course_section, info) ==
    LET course_data == SelectSeq(d.rows,
                                 LAMBDA r : r[column_mapping.course] = course_section)
        at == group_index(groups, info.instructor)
        fresh == [name |-> info.instructor, email |-> info.email,
                  course_name |-> info.course_name, sections |-> <<>>,
                  data |-> <<>>, total_meetings |-> 0, unique_students |-> 0]
        base == IF at = 0 THEN Append(groups, fresh) ELSE groups
        k == IF at = 0 THEN Len(base) ELSE at
    IN [base EXCEPT ![k] =
           [@ EXCEPT !.sections = Append(@, course_section),
                     !.data = course_data,
                     !.total_meetings = Len(course_data),
                     !.unique_students = Cardinality(student_pairs(course_data))]]

(* lines 233-257: one configured section added to the bundles              *)
add_section(groups, d, course_section, info) ==
    LET course_data == SelectSeq(d.rows,
                                 LAMBDA r : r[column_mapping.course] = course_section)
        at == group_index(groups, info.instructor)
        fresh == [name |-> info.instructor, email |-> info.email,
                  course_name |-> info.course_name, sections |-> <<>>,
                  data |-> <<>>, total_meetings |-> 0, unique_students |-> 0]
        base == IF at = 0 THEN Append(groups, fresh) ELSE groups
        k == IF at = 0 THEN Len(base) ELSE at
        data == base[k].data \o course_data
    IN [base EXCEPT ![k] =
           [@ EXCEPT !.sections = Append(@, course_section),
                     !.data = data,
                     !.total_meetings = Len(data),
                     !.unique_students = Cardinality(student_pairs(data))]]

RECURSIVE group_loop(_, _, _, _)
(* lines 223-257: the loop over the sections, from an accumulator of the   *)
(* bundles so far, the warnings logged and whether a KeyError was raised   *)
group_loop(d, mappings, sections, acc) ==
    IF sections = <<>> \/ acc.raised THEN acc
    ELSE LET course_section == Head(sections)
             info == get_instructor_for_section(mappings, course_section)
         IN IF course_section = "" THEN group_loop(d, mappings, Tail(sections), acc)
            ELSE IF info = None
            THEN group_loop(d, mappings, Tail(sections),
                   [acc EXCEPT !.log = Append(@, <<"warning", "No instructor configured for section">>)])
            ELSE IF ~({column_mapping.first_name, column_mapping.last_name} \subseteq d.columns)
            THEN [acc EXCEPT !.raised = TRUE]
            ELSE group_loop(d, mappings, Tail(sections),
                   [acc EXCEPT !.groups = add_section(@, d, course_section, info)])

(* lines 261-268: the sections in the data that are no key of the mapping  *)
missing_sections(d, mappings) ==
    Range(column(d, column_mapping.course)) \ DOMAIN mappings.map

(* lines 214-270: the bundles in insertion order, the diagnostic, the      *)
(* records logged, and whether a KeyError escaped                          *)
group_by_course_section(d, mappings) ==
    IF IsNone(d) \/ empty(d)
    THEN [raised |-> FALSE, groups |-> <<>>, missing |-> {}, log |-> <<>>]
    ELSE IF column_mapping.course \notin d.columns
    THEN [raised |-> TRUE, groups |-> <<>>, missing |-> {}, log |-> <<>>]
    ELSE LET acc == group_loop(d, mappings, unique(column(d, column_mapping.course)),
                               [raised |-> FALSE, groups |-> <<>>, log |-> <<>>])
             missing == missing_sections(d, mappings)
         IN IF acc.raised
            THEN [raised |-> TRUE, groups |-> <<>>, missing |-> {}, log |-> acc.log]
            ELSE [raised |-> FALSE, groups |-> acc.groups, missing |-> missing,
                  log |-> acc.log \o <<<<"info", "Found instructors with meetings">>>>
                            \o (IF missing /= {}
                                THEN <<<<"warning", "Sections in data but not configured">>>>
                                ELSE <<>>)]

----------------------------------------------------------------------------
(* The per-instructor steps of run_weekly_report                           *)

(* Series.value_counts().to_dict() / groupby(...).size().to_dict()         *)
counts(s) == [v \in Range(s) |-> Cardinality({i \in 1..Len(s) : s[i] = v})]

(* idxmax taking the greatest key of those with the greatest count         *)
idxmax_last(c) ==
    CHOOSE k \in DOMAIN c :
        /\ \A j \in DOMAIN c : c[j] <= c[k]
        /\ \A j \in DOMAIN c : c[j] = c[k] => j <= k

(* idxmax of a count table with integer keys: the least key of those with  *)
(* the greatest count (groupby sorts its keys)                             *)
idxmax(c) ==
    CHOOSE k \in DOMAIN c :
        /\ \A j \in DOMAIN c : c[j] <= c[k]
        /\ \A j \in DOMAIN c : c[j] = c[k] => k <= j

(* head(5) of the students by descending count (exact up to five students) *)
top_students(rows) ==
    LET c == counts([i \in 1..Len(rows) |->
                        <<rows[i][column_mapping.first_name],
                          rows[i][column_mapping.last_name]>>])
    IN [p \in {q \in DOMAIN c : Cardinality({o \in DOMAIN c : c[o] > c[q]}) < 5} |-> c[p]]

(* lines 272-323; the name columns exist once grouping has returned        *)
generate_instructor_statistics(instructor_data) ==
    LET rows == instructor_data.data
        days == counts([i \in 1..Len(rows) |-> DateOf(rows[i]["datetime"])])
    IN IF rows = <<>> THEN [k \in {} |-> 0]
       ELSE [total_meetings  |-> Len(rows),
             unique_students |-> instructor_data.unique_students,
             sections        |-> instructor_data.sections,
             section_count   |-> Len(instructor_data.sections),
             course_name     |-> instructor_data.course_name,
             meeting_types   |->
                 IF column_mapping.meeting_type \in DOMAIN rows[1]
                 THEN counts([i \in 1..Len(rows) |-> rows[i][column_mapping.meeting_type]])
                 ELSE [k \in {} |-> 0],
             daily_counts    |-> days,
             busiest_day     |-> idxmax(days),
             avg_daily       |-> <<Len(rows), Cardinality(DOMAIN days)>>,
             top_students    |-> top_students(rows),
             section_breakdown |->
                 [sec \in Range(instructor_data.sections) |->
                     LET part == SelectSeq(rows, LAMBDA r : r[column_mapping.course] = sec)
                     IN [meetings |-> Len(part),
                         students |-> Cardinality(student_pairs(part))]]]

(* lines 332-340: one entry of the meeting list; the date is the day of    *)
(* the timestamp (strftime('%Y-%m-%d')), the time its minute of the day   *)
meeting_of(r) ==
    [student_name |-> r[column_mapping.first_name] \o " " \o r[column_mapping.last_name],
     course       |-> r[column_mapping.course],
     date         |-> DateOf(r["datetime"]),
     time         |-> r["datetime"] % Day,
     meeting_type |-> r[column_mapping.meeting_type],
     topic        |-> IF r[column_mapping.topic] /= ""
                      THEN r[column_mapping.topic] ELSE "Not specified"]

RECURSIVE sort_by_date_desc(_)
(* line 343: list.sort(key=date, reverse=True), a stable sort              *)
sort_by_date_desc(ms) ==
    IF ms = <<>> THEN <<>>
    ELSE LET rest == sort_by_date_desc(SubSeq(ms, 1, Len(ms) - 1))
             m == ms[Len(ms)]
             before == SelectSeq(rest, LAMBDA x : x.date >= m.date)
             after == SelectSeq(rest, LAMBDA x : x.date < m.date)
         IN before \o <<m>> \o after

(* lines 325-344: row[...] raises KeyError for a column the sheet lacks    *)
create_student_meeting_list(rows, columns) ==
    IF rows = <<>> THEN [raised |-> FALSE, ret |-> <<>>]
    ELSE IF ~({column_mapping.meeting_type, column_mapping.topic} \subseteq columns)
    THEN [raised |-> TRUE, ret |-> <<>>]
    ELSE [raised |-> FALSE,
          ret |-> sort_by_date_desc([i \in 1..Len(rows) |-> meeting_of(rows[i])])]

(* name.replace(' ', '_').replace('.', '') on the instructor names         *)
file_stem(name) ==
    CASE name = "Dr. X"     -> "Dr_X"
      [] name = "Dr. Y"     -> "Dr_Y"
      [] name = "Dr. Smith" -> "Dr_Smith"
      [] OTHER              -> name

chart_name(name) == "weekly_report_" \o file_stem(name) \o ".png"
wordcloud_name(name) == "wordcloud_" \o file_stem(name) \o ".png"
(* datetime.now().strftime('%Y%m%d') of Now                                *)
csv_name(name) == "meetings_" \o file_stem(name) \o "_20240116.csv"

(* lines 452 and 469: s.split()[0] raises IndexError for a blank text      *)
chart_raises(stats) ==
    \/ \E sec \in Range(stats.sections) : strip(sec) = ""
    \/ \E p \in DOMAIN stats.top_students : strip(p[1]) = "" /\ strip(p[2]) = ""

(* lines 409-481: the file written and returned, or the exception          *)
create_instructor_visualization(name, instructor_data, stats) ==
    IF instructor_data.data = <<>> THEN [raised |-> FALSE, ret |-> "", written |-> {}]
    ELSE IF chart_raises(stats) THEN [raised |-> TRUE, ret |-> "", written |-> {}]
    ELSE [raised |-> FALSE, ret |-> chart_name(name), written |-> {chart_name(name)}]

(* lines 355-357: the topics a wordcloud is drawn from                     *)
valid_topics(rows) ==
    SelectSeq([i \in 1..Len(rows) |-> rows[i][column_mapping.topic]],
              LAMBDA t : t /= "" /\ lower(t) /= "not specified")

(* lines 346-407: every exception is caught; `renders` is whether the      *)
(* WordCloud and matplotlib calls succeed                                  *)
create_wordcloud_from_topics(name, rows, renders) ==
    IF rows = <<>> THEN [ret |-> "", written |-> {}, log |-> <<>>]
    ELSE IF valid_topics(rows) = <<>>
    THEN [ret |-> "", written |-> {}, log |-> <<<<"warning", "No valid topics found">>>>]
    ELSE IF ~renders
    THEN [ret |-> "", written |-> {}, log |-> <<<<"error", "Error creating wordcloud">>>>]
    ELSE [ret |-> wordcloud_name(name), written |-> {wordcloud_name(name)},
          log |-> <<<<"info", "Created wordcloud">>>>]

(* The SMTP conversation: the step that raises, or "ok"                    *)
SmtpOutcomes == {"ok", "connect", "starttls", "login", "send_message", "quit"}
handed_over(smtp) == smtp \in {"ok", "quit"}

(* lines 615-678.  A file name "" stands for None.  The value returned,    *)
(* the files on disk afterwards, the message if the server took it, the    *)
(* files the call was handed or wrote, and the records logged              *)
send_instructor_email(name, email, meetings_list, chart, wordcloud, disk, smtp) ==
    LET written == IF meetings_list /= <<>> THEN {csv_name(name)} ELSE {}
        on_disk == disk \cup written
        attached == {f \in {chart, wordcloud} : f /= "" /\ f \in disk} \cup written
        msg == [to |-> email, instructor |-> name, attachments |-> attached]
        handled == ({chart, wordcloud} \ {""}) \cup written
    IN IF smtp = "ok"
       THEN [ret |-> TRUE,
             files |-> on_disk \ {chart, wordcloud, csv_name(name)},
             sent |-> <<msg>>, msg |-> msg, handled |-> handled,
             log |-> <<<<"info", "Email sent successfully">>>>]
       ELSE [ret |-> FALSE,
             files |-> on_disk,
             sent |-> IF handed_over(smtp) THEN <<msg>> ELSE <<>>, msg |-> msg,
             handled |-> handled,
             log |-> <<<<"error", "Failed to send email">>>>]

----------------------------------------------------------------------------
(* MeetingFormsReporter.generate_statistics (simple_forms_automation.py)   *)

(* A value of a field that is a number in one case and a text in another   *)
IntVal(n) == [int |-> n]
StrVal(t) == [str |-> t]

Min(S) == CHOOSE x \in S : \A y \in S : x <= y
Max(S) == CHOOSE x \in S : \A y \in S : y <= x

(* value_counts().index[0]: a most frequent value, the first to appear     *)
(* among those                                                             *)
most_frequent(s) ==
    LET c == counts(s)
        best == {i \in 1..Len(s) : \A v \in DOMAIN c : c[v] <= c[s[i]]}
    IN s[Min(best)]

(* lines 168-185: the summary of an empty record set                       *)
empty_statistics ==
    [total_meetings |-> 0, semester_total |-> 0, today_meetings |-> 0,
     yesterday_meetings |-> 0, this_week_meetings |-> 0, last_7_days |-> 0,
     avg_daily_meetings |-> <<0, 1>>, avg_weekly_meetings |-> <<0, 1>>,
     peak_hour |-> StrVal("N/A"), most_recent |-> StrVal("No data"),
     popular_meeting_type |-> "N/A", active_courses |-> 0, unique_students |-> 0,
     semester_start |-> StrVal("N/A"), days_active |-> 0]

(* lines 241-243: the 'full_name' column written into the caller's frame   *)
with_full_name(d) ==
    IF {column_mapping.first_name, column_mapping.last_name} \subseteq d.columns
    THEN DataFrame([i \in 1..Len(d.rows) |->
                       WithCol(d.rows[i], "full_name",
                               d.rows[i][column_mapping.first_name] \o " "
                                 \o d.rows[i][column_mapping.last_name])],
                   d.columns \cup {"full_name"})
    ELSE d

(* lines 166-247: the summary; averages are <<numerator, denominator>>     *)
generate_statistics(d) ==
    IF IsNone(d) \/ empty(d) THEN empty_statistics
    ELSE
    LET ts == column(d, "datetime")
        today == DateOf(Now)
        semester_start == Min(Range(ts))
        semester_end == Max(Range(ts))
        days_in_semester == ((semester_end - semester_start) \div Day) + 1
        n == Len(d.rows)
        has(c) == c \in d.columns
    IN [semester_total |-> n,
        semester_start |-> [date |-> DateOf(semester_start)],
        semester_end |-> [date |-> DateOf(semester_end)],
        days_active |-> days_in_semester,
        total_meetings |-> n,
        today_meetings |-> Cardinality({i \in 1..n : DateOf(ts[i]) = today}),
        yesterday_meetings |-> Cardinality({i \in 1..n : DateOf(ts[i]) = today - 1}),
        this_week_meetings |-> Cardinality({i \in 1..n : ts[i] >= week_ago}),
        last_7_days |-> Cardinality({i \in 1..n : ts[i] >= week_ago}),
        avg_daily_meetings |-> <<n, days_in_semester>>,
        avg_weekly_meetings |-> <<n * 7, days_in_semester>>,
        peak_hour |-> IntVal(idxmax(counts([i \in 1..n |-> HourOf(ts[i])]))),
        most_recent |-> [ts |-> semester_end],
        popular_meeting_type |->
            IF has(column_mapping.meeting_type)
            THEN most_frequent(column(d, column_mapping.meeting_type)) ELSE "N/A",
        meeting_type_breakdown |->
            IF has(column_mapping.meeting_type)
            THEN counts(column(d, column_mapping.meeting_type)) ELSE [k \in {} |-> 0],
        active_courses |->
            IF has(column_mapping.course)
            THEN Cardinality(Range(column(d, column_mapping.course))) ELSE 0,
        course_breakdown |->
            IF has(column_mapping.course)
            THEN counts(column(d, column_mapping.course)) ELSE [k \in {} |-> 0],
        unique_students |->
            IF has(column_mapping.first_name) /\ has(column_mapping.last_name)
            THEN Cardinality(Range(column(with_full_name(d), "full_name"))) ELSE 0]

(* create_visualizations: the file it saves                                *)
create_visualizations(d) == {"meeting_analytics.png"}

(* datetime.now().strftime('%Y%m%d') of Now                                *)
daily_csv_name == "meeting_data_20240116.csv"

(* lines 441-488: the files on disk afterwards, the message if the server  *)
(* took it, and the records logged; every exception is caught              *)
send_email_report(stats, d, disk, smtp) ==
    LET export == ~IsNone(d) /\ ~empty(d)
        chart == "meeting_analytics.png" \in disk
        msg == [to |-> "recipients", instructor |-> "",
                attachments |-> (IF export THEN {daily_csv_name} ELSE {})
                                  \cup (IF chart THEN {"meeting_analytics.png"} ELSE {})]
    IN [files |-> disk \ {daily_csv_name, "meeting_analytics.png"},
        sent |-> IF handed_over(smtp) THEN <<msg>> ELSE <<>>, msg |-> msg,
        handled |-> msg.attachments,
        csv_rows |-> IF export THEN d ELSE EmptyFrame,
        log |-> IF smtp = "ok" THEN <<<<"info", "Email sent to recipients">>>>
                ELSE <<<<"error", "Failed to send email">>>>]

----------------------------------------------------------------------------
(* The inputs of a run                                                     *)

Row(date, time, course, first, last, mtype, topic) ==
    [c \in AllCols |->
        CASE c = column_mapping.date         -> date
          [] c = column_mapping.time         -> time
          [] c = column_mapping.course       -> course
          [] c = column_mapping.first_name   -> first
          [] c = column_mapping.last_name    -> last
          [] c = column_mapping.meeting_type -> mtype
          [] c = column_mapping.topic        -> topic]

(* Sheet rows: a meeting of yesterday, one without a time or a topic, an   *)
(* unreadable date, a blank row, a meeting without student names, and an   *)
(* old meeting of a section no instructor has                              *)
RowChoices ==
    { Row("01/15/2024", "14:30", "A", "Ann", "Lee", "Office Hours", "kinetics"),
      Row("01/14/2024", "", "B", "Bob", "Ray", "Tutoring", ""),
      Row("bad-date", "", "A", "Ann", "Lee", "Tutoring", "acids"),
      Row("", "", "", "", "", "", ""),
      Row("01/15/2024", "09:00", "B", "", "", "Office Hours", "lab"),
      Row("01/02/2024", "09:00", "Z", "Cy", "Orr", "Tutoring", "bonds") }

(* Header rows: every column, or all but one                               *)
Headers ==
    {AllCols} \cup
    {AllCols \ {column_mapping[k]} :
        k \in {"date", "time", "course", "topic", "first_name"}}

restrict(r, header) == [c \in header |-> r[c]]

(* get_all_values() of a sheet: nothing, a header alone, or a header and   *)
(* rows                                                                    *)
SheetsOf(headers, rows, n) ==
    {<<>>} \cup {<<h>> : h \in headers} \cup
    {<<h>> \o [i \in 1..Len(rs) |-> restrict(rs[i], h)] :
        h \in headers, rs \in SeqsUpTo(rows, n) \ {<<>>}}

Sheets == SheetsOf(Headers, RowChoices, MaxRows)

(* Those of them that have every column                                    *)
FullSheets == SheetsOf({AllCols}, RowChoices, MaxRows)

(* A few sheets with every column, for the runs that vary the config       *)
CoreSheets ==
    { <<AllCols,
        Row("01/15/2024", "14:30", "A", "Ann", "Lee", "Office Hours", "kinetics"),
        Row("01/14/2024", "", "B", "Bob", "Ray", "Tutoring", "")>>,
      <<AllCols,
        Row("01/15/2024", "09:00", "B", "", "", "Office Hours", "lab"),
        Row("01/15/2024", "14:30", "A", "Ann", "Lee", "Office Hours", "kinetics")>>,
      <<AllCols,
        Row("01/15/2024", "09:00", "A", "Ann", "Lee", "Tutoring", "acids"),
        Row("01/15/2024", "14:30", "A", "Ann", "Lee", "Office Hours", "kinetics")>>,
      <<AllCols,
        Row("01/09/2024", "07:00", "A", "Ann", "Lee", "Tutoring", "bonds"),
        Row("01/09/2024", "09:00", "A", "Ann", "Lee", "Office Hours", "kinetics")>> }

(* Sheet rows for the summaries: two students whose names read the same    *)
(* once joined, meetings without a meeting type, a meeting of today, and   *)
(* a section typed with a leading blank                                    *)
StatRowChoices ==
    { Row("01/16/2024", "07:00", "A", "Mary Ann", "Lee", "", "kinetics"),
      Row("01/15/2024", "14:30", "A", "Mary", "Ann Lee", "", "acids"),
      Row("01/15/2024", "09:00", "B", "Bob", "Ray", "Tutoring", "lab"),
      Row("01/15/2024", "14:30", " A", "Ann", "Lee", "Office Hours", "kinetics") }

StatHeaders ==
    {AllCols} \cup
    {AllCols \ {column_mapping[k]} : k \in {"meeting_type", "last_name"}}

StatSheets == SheetsOf(StatHeaders, StatRowChoices, MaxRows)

(* Sheet rows for the loading: a date typed between blanks and no time, a  *)
(* 'nan' between blanks, an ISO date, a 12-hour time, a meeting in the     *)
(* sheet's usual notation, and a time cell of blanks                       *)
LoadRowChoices ==
    { Row(" 01/14/2024 ", "", "A", "Ann", "Lee", "Tutoring", "acids"),
      Row(" nan ", "09:00", "A", "Ann", "Lee", "Tutoring", "acids"),
      Row("2024-01-13", "09:00", "A", "Ann", "Lee", "Office Hours", "kinetics"),
      Row("01/15/2024", "2:30 PM", "A", "Bob", "Ray", "Tutoring", "lab"),
      Row("01/15/2024", "14:30", "A", "Ann", "Lee", "Office Hours", "kinetics"),
      Row("01/16/2024", "  ", "A", "Bob", "Ray", "Tutoring", "lab") }

LoadSheets == SheetsOf({AllCols}, LoadRowChoices, MaxRows)

CsvRowChoices ==
    { CsvRow("A", "Dr. X", "x@u.edu", "Chemistry", "true"),
      CsvRow("B", "Dr. Y", "y@u.edu", "Biology", "true"),
      CsvRow("B", "Dr. Y", "y@u.edu", "Biology", "false"),
      CsvRow("B", "Dr. X", "x@u.edu", "Chemistry", "FALSE"),
      CsvRow("A", "Dr. X", "", "Chemistry", "true"),
      CsvRow("B", "Dr. X", "x@u.edu", "Chemistry", "true") }

CsvChoices ==
    {Absent, Unreadable} \cup {CsvFile(rs) : rs \in SeqsUpTo(CsvRowChoices, MaxCfgRows)}

Info(name, email, course, active) ==
    [instructor |-> name, email |-> email, course_name |-> course, active |-> active]

JsonChoices ==
    { Absent, Unreadable,
      JsonFile("Spring 2024", "2024-01-10", [k \in {} |-> TRUE]),
      JsonFile("Spring 2024", "2024-01-10",
               [k \in {"A", "B"} |->
                   IF k = "A" THEN Info("Dr. X", "x@u.edu", "Chemistry", TRUE)
                   ELSE Info("Dr. Y", "y@u.edu", "Biology", FALSE)]) }

StandardCsv ==
    CsvFile(<<CsvRow("A", "Dr. X", "x@u.edu", "Chemistry", "true"),
              CsvRow("B", "Dr. Y", "y@u.edu", "Biology", "true")>>)

(* The config files of a run, <<csv, json>>: a JSON file is looked at      *)
(* only when there is no CSV file                                          *)
Configs ==
    {<<c, j>> : c \in {Absent, Unreadable, StandardCsv}, j \in JsonChoices}
    \cup {<<c, Absent>> : c \in CsvChoices}

CoreConfigs ==
    {<<StandardCsv, Absent>>, <<Absent, Absent>>} \cup {<<Absent, j>> : j \in JsonChoices}

Sources == {"ok", "connect_failed", "fetch_failed"}

----------------------------------------------------------------------------
(* The state machine                                                       *)

NoCur == [stats |-> [k \in {} |-> 0], meetings_list |-> <<>>, chart |-> "",
          wordcloud |-> ""]

Fresh ==
    /\ files = {}
    /\ instructor_mappings = None
    /\ config_metadata = NoMetadata
    /\ pc = "start"
    /\ df = None
    /\ weekly_df = None
    /\ instructor_groups = <<>>
    /\ missing_config = {}
    /\ idx = 0
    /\ cur = NoCur
    /\ success_count = 0
    /\ log = <<>>
    /\ attempts = <<>>
    /\ outbox = <<>>
    /\ run = 1
    /\ first_run = None
    /\ config_at_start = <<csv_file, json_file>>
    /\ infer_format \in BOOLEAN

(* The sheets of the runs whose source fails: its rows are never read      *)
UnreadSheets == {<<>>} \cup CoreSheets

InitDaily ==
    /\ script = "daily"
    /\ source \in Sources
    /\ values \in (IF source = "ok" THEN Sheets \cup StatSheets \cup LoadSheets
                   ELSE UnreadSheets)
    /\ csv_file = Absent
    /\ json_file = Absent
    /\ Fresh

InitWeekly ==
    /\ script = "weekly"
    /\ source \in Sources
    /\ \E c \in Configs :
          /\ csv_file = c[1]
          /\ json_file = c[2]
          /\ values \in (IF source /= "ok" THEN UnreadSheets
                         ELSE IF c = <<StandardCsv, Absent>>
                         THEN Sheets \cup StatSheets \cup LoadSheets
                         ELSE IF c \in CoreConfigs THEN FullSheets ELSE CoreSheets)
    /\ Fresh

Init == InitDaily \/ InitWeekly

(* The methods class ConfigBasedInstructorReporter defines; calling any    *)
(* other attribute of self raises AttributeError                           *)
Methods ==
    {"__init__", "load_instructor_config", "create_sample_config",
     "get_instructor_for_section", "connect_to_sheets", "load_data",
     "get_weekly_data", "group_by_course_section",
     "generate_instructor_statistics", "create_student_meeting_list",
     "create_wordcloud_from_topics", "create_instructor_visualization",
     "create_instructor_email_body", "send_instructor_email", "run_weekly_report"}

Inputs == <<script, values, source, infer_format>>
Config == <<csv_file, json_file>>
Weekly == <<weekly_df, instructor_groups, missing_config, idx, success_count>>
History == <<run, config_at_start, first_run>>

(* line 744-745: the handler around the whole of run_weekly_report         *)
Abort ==
    /\ log' = Append(log, <<"error", "Error in weekly report generation">>)
    /\ pc' = "done"

(* __init__ of the script's reporter (weekly: lines 29-53)                 *)
Construct ==
    /\ pc = "start"
    /\ pc' = "run"
    /\ IF script = "weekly"
       THEN LET r == load_instructor_config(csv_file, json_file, config_metadata)
            IN /\ instructor_mappings' = r.ret
               /\ csv_file' = r.csv
               /\ config_metadata' = NoMetadata
               /\ log' = log \o r.log
       ELSE UNCHANGED <<instructor_mappings, csv_file, config_metadata, log>>
    /\ UNCHANGED <<Inputs, json_file, files, df, Weekly, cur, attempts, outbox, History>>

(* run_weekly_report, lines 683-689: what the run logs and where it goes   *)
check_mappings(mappings) ==
    IF falsy(mappings)
    THEN [log |-> <<<<"info", "Starting weekly instructor reports">>,
                    <<"error", "No instructor mappings configured">>,
                    <<"info", "Please edit instructor_mappings.csv">>>>,
          pc |-> "done"]
    ELSE [log |-> <<<<"info", "Starting weekly instructor reports">>>>, pc |-> "load"]

CheckMappings ==
    /\ script = "weekly" /\ pc = "run"
    /\ log' = log \o check_mappings(instructor_mappings).log
    /\ pc' = check_mappings(instructor_mappings).pc
    /\ UNCHANGED <<Inputs, Config, files, instructor_mappings, config_metadata, df,
                   Weekly, cur, attempts, outbox, History>>

(* run_weekly_report, lines 693-695: what the run logs for the value       *)
(* load_data returned, and where it goes                                   *)
check_loaded(ret) ==
    IF IsNone(ret)
    THEN [log |-> <<<<"error", "Failed to load data">>>>, pc |-> "done"]
    ELSE [log |-> <<>>, pc |-> "filter"]

(* run_weekly_report, lines 691-695                                        *)
LoadData ==
    /\ script = "weekly" /\ pc = "load"
    /\ LET r == load_data_weekly(values, source)
       IN /\ df' = r.ret
          /\ log' = log \o r.log \o check_loaded(r.ret).log
          /\ pc' = check_loaded(r.ret).pc
    /\ UNCHANGED <<Inputs, Config, files, instructor_mappings, config_metadata,
                   Weekly, cur, attempts, outbox, History>>

(* run_weekly_report, lines 697-701                                        *)
GetWeeklyData ==
    /\ script = "weekly" /\ pc = "filter"
    /\ LET r == get_weekly_data(df)
       IN IF r.raised
          THEN Abort /\ UNCHANGED weekly_df
          ELSE /\ weekly_df' = r.ret
               /\ IF empty(r.ret)
                  THEN /\ log' = Append(log, <<"warning", "No meetings in the past week">>)
                       /\ pc' = "done"
                  ELSE /\ log' = Append(log, <<"info", "Weekly data">>)
                       /\ pc' = "group"
    /\ UNCHANGED <<Inputs, Config, files, instructor_mappings, config_metadata, df,
                   instructor_groups, missing_config, idx, success_count, cur,
                   attempts, outbox, History>>

(* run_weekly_report, lines 703-711                                        *)
GroupByCourseSection ==
    /\ script = "weekly" /\ pc = "group"
    /\ LET r == group_by_course_section(weekly_df, instructor_mappings)
       IN IF r.raised
          THEN /\ log' = log \o r.log
                           \o <<<<"error", "Error in weekly report generation">>>>
               /\ pc' = "done"
               /\ UNCHANGED <<instructor_groups, missing_config, idx, success_count>>
          ELSE /\ instructor_groups' = r.groups
               /\ missing_config' = r.missing
               /\ success_count' = 0
               /\ IF r.groups = <<>>
                  THEN /\ log' = log \o r.log \o
                            <<<<"warning", "No instructors found with configured sections">>>>
                       /\ pc' = "done"
                       /\ UNCHANGED idx
                  ELSE /\ log' = log \o r.log
                       /\ pc' = "loop"
                       /\ idx' = 1
    /\ UNCHANGED <<Inputs, Config, files, instructor_mappings, config_metadata, df,
                   weekly_df, cur, attempts, outbox, History>>

(* run_weekly_report, lines 714-727: the statistics, the meeting list and  *)
(* the two images of the instructor at idx                                 *)
GenerateArtifacts ==
    /\ script = "weekly" /\ pc = "loop" /\ idx <= Len(instructor_groups)
    /\ \E renders \in BOOLEAN :
         LET g == instructor_groups[idx]
             stats == generate_instructor_statistics(g)
             ml == create_student_meeting_list(g.data, weekly_df.columns)
             chart == create_instructor_visualization(g.name, g, stats)
             cloud == create_wordcloud_from_topics(g.name, g.data, renders)
         IN IF ml.raised \/ chart.raised
            THEN /\ log' = log \o <<<<"info", "Processing instructor">>,
                                    <<"error", "Error in weekly report generation">>>>
                 /\ pc' = "done"
                 /\ UNCHANGED <<cur, files>>
            ELSE /\ cur' = [stats |-> stats, meetings_list |-> ml.ret,
                            chart |-> chart.ret, wordcloud |-> cloud.ret]
                 /\ files' = files \cup chart.written \cup cloud.written
                 /\ log' = Append(log, <<"info", "Processing instructor">>) \o cloud.log
                 /\ pc' = "send"
    /\ UNCHANGED <<Inputs, Config, instructor_mappings, config_metadata, df, Weekly,
                   attempts, outbox, History>>

(* run_weekly_report, lines 729-731                                        *)
SendInstructorEmail ==
    /\ script = "weekly" /\ pc = "send"
    /\ \E smtp \in SmtpOutcomes :
         LET g == instructor_groups[idx]
             r == send_instructor_email(g.name, g.email, cur.meetings_list,
                                        cur.chart, cur.wordcloud, files, smtp)
         IN /\ files' = r.files
            /\ outbox' = outbox \o r.sent
            /\ attempts' = Append(attempts, [msg |-> r.msg, ret |-> r.ret,
                                             left |-> r.files \cap r.handled])
            /\ log' = Append(log, <<"info", "Preparing email">>) \o r.log
            /\ success_count' = IF r.ret THEN success_count + 1 ELSE success_count
    /\ idx' = idx + 1
    /\ pc' = "loop"
    /\ UNCHANGED <<Inputs, Config, instructor_mappings, config_metadata, df, weekly_df,
                   instructor_groups, missing_config, cur, History>>

(* run_weekly_report, lines 733-741: the administrator summary and the     *)
(* final run summary                                                       *)
AdminSummary ==
    /\ script = "weekly" /\ pc = "loop" /\ idx > Len(instructor_groups)
    /\ IF {"create_admin_summary_statistics", "send_admin_summary_email"} \subseteq Methods
       THEN /\ log' = log \o <<<<"info", "Preparing administrator summary">>,
                               <<"info", "Weekly reports completed">>>>
            /\ pc' = "done"
       ELSE /\ log' = log \o <<<<"info", "Preparing administrator summary">>,
                               <<"error", "Error in weekly report generation">>>>
            /\ pc' = "done"
    /\ UNCHANGED <<Inputs, Config, files, instructor_mappings, config_metadata, df,
                   Weekly, cur, attempts, outbox, History>>

(* run_daily_report, lines 497-499: what the run logs for the value        *)
(* load_data returned, and where it goes                                   *)
check_loaded_daily(ret) ==
    IF IsNone(ret) \/ empty(ret)
    THEN [log |-> <<<<"error", "No data loaded">>>>, pc |-> "done"]
    ELSE [log |-> <<>>, pc |-> "stats"]

(* run_daily_report, lines 493-499                                        *)
DailyLoadData ==
    /\ script = "daily" /\ pc = "run"
    /\ LET r == load_data_daily(values, source)
       IN /\ df' = r.ret
          /\ log' = Append(log, <<"info", "Starting daily meeting analytics">>)
                       \o r.log \o check_loaded_daily(r.ret).log
          /\ pc' = check_loaded_daily(r.ret).pc
    /\ UNCHANGED <<Inputs, Config, files, instructor_mappings, config_metadata,
                   Weekly, cur, attempts, outbox, History>>

(* run_daily_report, lines 501-502; generate_statistics writes its         *)
(* 'full_name' column into df                                              *)
GenerateStatistics ==
    /\ script = "daily" /\ pc = "stats"
    /\ cur' = [cur EXCEPT !.stats = generate_statistics(df)]
    /\ df' = with_full_name(df)
    /\ log' = Append(log, <<"info", "Stats">>)
    /\ pc' = "viz"
    /\ UNCHANGED <<Inputs, Config, files, instructor_mappings, config_metadata,
                   Weekly, attempts, outbox, History>>

(* run_daily_report, line 504                                              *)
CreateVisualizations ==
    /\ script = "daily" /\ pc = "viz"
    /\ files' = files \cup create_visualizations(df)
    /\ log' = Append(log, <<"info", "Created comprehensive analytics visualizations">>)
    /\ pc' = "send"
    /\ UNCHANGED <<Inputs, Config, instructor_mappings, config_metadata, df,
                   Weekly, cur, attempts, outbox, History>>

(* run_daily_report, lines 505-507                                         *)
SendEmailReport ==
    /\ script = "daily" /\ pc = "send"
    /\ \E smtp \in SmtpOutcomes :
         LET written == IF ~empty(df) THEN {daily_csv_name} ELSE {}
             r == send_email_report(cur.stats, df, files \cup written, smtp)
         IN /\ files' = r.files
            /\ outbox' = outbox \o r.sent
            /\ attempts' = Append(attempts, [msg |-> r.msg, ret |-> FALSE,
                                             left |-> r.files \cap r.handled])
            /\ log' = Append(log, <<"info", "Sending daily report">>) \o r.log
                        \o <<<<"info", "Daily report completed">>>>
    /\ pc' = "done"
    /\ UNCHANGED <<Inputs, Config, instructor_mappings, config_metadata, df,
                   Weekly, cur, History>>

(* What a run fetched, grouped and addressed, for the comparison of two    *)
(* invocations                                                             *)
Observed ==
    [mappings |-> instructor_mappings, fetched |-> df, weekly |-> weekly_df,
     groups |-> instructor_groups, missing |-> missing_config,
     addressed |-> [i \in 1..Len(attempts) |->
                       <<attempts[i].msg.instructor, attempts[i].msg.to>>]]

(* main(), lines 747-758 (daily: 514-526): the script is invoked again     *)
(* with the same sheet and clock; a new reporter is constructed, and only  *)
(* the working directory (the config files and whatever files the first    *)
(* run left) is what it was                                                *)
Rerun ==
    /\ pc = "done" /\ run = 1
    /\ run' = 2
    /\ first_run' = [kind |-> "run", observed |-> Observed, left |-> files]
    /\ pc' = "start"
    /\ instructor_mappings' = None
    /\ config_metadata' = NoMetadata
    /\ df' = None
    /\ weekly_df' = None
    /\ instructor_groups' = <<>>
    /\ missing_config' = {}
    /\ idx' = 0
    /\ cur' = NoCur
    /\ success_count' = 0
    /\ log' = <<>>
    /\ attempts' = <<>>
    /\ outbox' = <<>>
    /\ UNCHANGED <<Inputs, Config, files, config_at_start>>

Next ==
    \/ Rerun
    \/ Construct
    \/ CheckMappings
    \/ LoadData
    \/ GetWeeklyData
    \/ GroupByCourseSection
    \/ GenerateArtifacts
    \/ SendInstructorEmail
    \/ AdminSummary
    \/ DailyLoadData
    \/ GenerateStatistics
    \/ CreateVisualizations
    \/ SendEmailReport

Spec == Init /\ [][Next]_vars

----------------------------------------------------------------------------
(* The claims                                                              *)

Logged(level, message) == <<level, message>> \in Range(log)
Finished == pc = "done"
ReachedLoop == script = "weekly" /\ instructor_groups /= <<>>
Attempted(name) == \E i \in 1..Len(attempts) : attempts[i].msg.instructor = name

(* C1: once send_instructor_email or send_email_report has returned,       *)
(* whatever the SMTP steps did, none of the files the call wrote or was    *)
(* handed (chart, wordcloud, CSV export) is still on disk.                 *)
C1_ArtifactsRemovedAfterSend ==
    \A i \in 1..Len(attempts) : attempts[i].left = {}

(* C2: in run_weekly_report a failure while one instructor is processed    *)
(* stops only that instructor: when the run has ended, every other         *)
(* instructor group has had its email send attempted.                      *)
C2_SiblingsStillProcessed ==
    (Finished /\ ReachedLoop) =>
        \A i \in 1..Len(instructor_groups) :
            i /= idx => Attempted(instructor_groups[i].name)

(* C3: a run of run_weekly_report that reached the per-instructor loop     *)
(* has, when it ends, emitted the final run summary ("Weekly reports       *)
(* completed! Sent n/m instructor emails"), whatever the sends did.        *)
C3_SummaryEmitted ==
    (Finished /\ ReachedLoop) => Logged("info", "Weekly reports completed")

(* C4: every record of a non-null result of load_data, in both scripts,    *)
(* has a 'datetime' value that is present and not null.                    *)
C4_RecordsHaveTimestamp ==
    ~IsNone(df) =>
        \A i \in 1..Len(df.rows) :
            "datetime" \in DOMAIN df.rows[i] /\ df.rows[i]["datetime"] /= NaT

(* The three states of the mapping configuration the load is to tell       *)
(* apart, of a pair <<csv, json>> of config files                          *)
ConfigState(c) ==
    IF c[1].state = "absent" /\ c[2].state = "absent" THEN "absent"
    ELSE IF c[1].state = "unreadable"
            \/ (c[1].state = "absent" /\ c[2].state = "unreadable") THEN "corrupt"
    ELSE IF c[1].state = "ok"
    THEN IF \A i \in 1..Len(c[1].rows) : ~csv_row_active(c[1].rows, i)
         THEN "zero_active" ELSE "other"
    ELSE IF \A k \in DOMAIN c[2].course_mappings : ~c[2].course_mappings[k].active
         THEN "zero_active" ELSE "other"

(* The reporter's state after __init__ and what run_weekly_report does     *)
(* with it, for a pair of config files                                     *)
LoadSignal(c) ==
    LET r == load_instructor_config(c[1], c[2], NoMetadata)
    IN <<r.ret, NoMetadata, check_mappings(r.ret)>>

(* C5: the three states of the mapping configuration (zero active          *)
(* instructors, corrupt file, no file) give three different signals: the   *)
(* reporter's state after the load together with the outcome of            *)
(* run_weekly_report is never the one another of the three states gives.   *)
C5_LoadOutcomesDistinct ==
    (script = "weekly" /\ run = 1 /\ pc = "done"
       /\ ConfigState(config_at_start) \in {"zero_active", "corrupt", "absent"}) =>
        \A c \in Configs :
            (ConfigState(c) \in {"zero_active", "corrupt", "absent"}
               /\ ConfigState(c) /= ConfigState(config_at_start)) =>
                <<instructor_mappings, config_metadata,
                  check_mappings(instructor_mappings)>> /= LoadSignal(c)

(* C6: with neither instructor_mappings.csv nor instructor_mappings.json,  *)
(* constructing the reporter writes the sample CSV file and yields an      *)
(* empty mapping, and run_weekly_report then returns early: nothing is     *)
(* raised, the sheet is not fetched, no email is sent.                     *)
C6_FirstRunWritesTemplateAndExits ==
    (script = "weekly" /\ run = 1 /\ config_at_start = <<Absent, Absent>>) =>
        /\ pc /= "start" =>
              /\ csv_file.state = "ok" /\ csv_file.rows = sample_data
              /\ Len(csv_file.rows) > 0
              /\ instructor_mappings = EmptyDict
        /\ pc \in {"start", "run", "done"}
        /\ df = None
        /\ attempts = <<>> /\ outbox = <<>>
        /\ ~Logged("error", "Error in weekly report generation")

C6_FirstRunExited ==
    /\ script = "weekly" /\ run = 1 /\ config_at_start = <<Absent, Absent>>
    /\ pc = "done"
    /\ csv_file = CsvFile(sample_data)
    /\ Logged("info", "Created sample instructor_mappings.csv file")

(* C7 as stated: two consecutive runs on the same sheet, configuration     *)
(* and clock fetch, group and address the same.                            *)
C7_RunsIdentical ==
    (run = 2 /\ Finished) => Observed = first_run.observed

(* C7: the one thing a run leaves that changes a later run is the sample   *)
(* CSV file written when no config file exists (the first run then stops   *)
(* with an empty mapping, the second loads the sample rows).  With a       *)
(* config file present, the config files are left as they were and the     *)
(* second run loads, fetches, groups and addresses what the first did,     *)
(* whatever files the first run left behind.                               *)
C7_OnlyTheTemplateCrossesRuns ==
    /\ (script = "daily" \/ config_at_start /= <<Absent, Absent>>) =>
          /\ <<csv_file, json_file>> = config_at_start
          /\ (run = 2 /\ Finished) => Observed = first_run.observed
    /\ (script = "weekly" /\ run = 2 /\ pc /= "start"
          /\ config_at_start = <<Absent, Absent>>) =>
          /\ first_run.observed.mappings = EmptyDict
          /\ instructor_mappings = Dict(csv_mappings(sample_data))

C7_SecondRunOverLeftovers ==
    /\ script = "weekly" /\ run = 2 /\ Finished
    /\ config_at_start /= <<Absent, Absent>>
    /\ first_run.left /= {}
    /\ attempts /= <<>>

(* C8: whichever config file the mappings come from, no entry whose        *)
(* active flag is false is in instructor_mappings, and so no group bundle  *)
(* has a section of such an entry.                                         *)
C8_InactiveEntriesExcluded ==
    /\ ~IsNone(instructor_mappings) =>
          \A k \in DOMAIN instructor_mappings.map : instructor_mappings.map[k].active
    /\ \A i \in 1..Len(instructor_groups) :
          \A k \in Range(instructor_groups[i].sections) :
              instructor_mappings.map[k].active

(* C9: a sheet whose header lacks the date or the course column is fatal   *)
(* to the run in both scripts: once the sheet's rows have been fetched,    *)
(* the run logs an error, produces no statistics and attempts no email.    *)
C9_MissingColumnFatal ==
    (/\ Finished /\ source = "ok" /\ Len(values) >= 2
     /\ \/ column_mapping.date \notin values[1]
        \/ column_mapping.course \notin values[1]
     /\ script = "weekly" => ~falsy(instructor_mappings)) =>
        /\ \E i \in 1..Len(log) : log[i][1] = "error"
        /\ cur.stats = NoCur.stats
        /\ attempts = <<>>

(* The rows of the sheet none of which gives a valid timestamp             *)
ZeroValidTimestamps ==
    IF script = "daily"
    THEN /\ {column_mapping.date, column_mapping.time} \subseteq values[1]
         /\ dropna_datetime(parsed_rows_daily(Tail(values))) = <<>>
    ELSE /\ column_mapping.date \in values[1]
         /\ parsed_rows_weekly(Tail(values), values[1]) = <<>>

(* C10: the value load_data returns for two or more raw rows none of       *)
(* which gives a valid timestamp is not the value it returns for a sheet   *)
(* with fewer than two raw rows.                                           *)
C10_NoValidDatesDistinctFromNoRows ==
    (source = "ok" /\ pc \notin {"start", "run", "load"}
       /\ (script = "weekly" => ~falsy(instructor_mappings))
       /\ Len(values) >= 2 /\ ZeroValidTimestamps) =>
        df /= (IF script = "daily" THEN load_data_daily(<<values[1]>>, source).ret
               ELSE load_data_weekly(<<values[1]>>, source).ret)

(* What the run logs, beyond load_data's own records, when load_data       *)
(* returned None                                                           *)
SourceUnreachableMessages ==
    IF script = "daily" THEN Range(check_loaded_daily(None).log)
    ELSE Range(check_loaded(None).log)

(* C11: a run whose load_data returned an empty record set ends with no    *)
(* email sent, and what the run logs for it is not what it logs when       *)
(* load_data returned None (connection or fetch failure).                  *)
C11_EmptyDistinctFromUnreachable ==
    (Finished /\ ~IsNone(df) /\ empty(df)) =>
        /\ attempts = <<>> /\ outbox = <<>>
        /\ \A m \in SourceUnreachableMessages : m \notin Range(log)

(* The summary a call of the script's aggregator gave in this run          *)
HasSummary == cur.stats /= NoCur.stats

(* C12: the summary of an empty (or None) record set is fully populated:   *)
(* it has the fields of the summary of a non-empty record set, its count   *)
(* fields are 0 and its descriptive fields are 'N/A' / 'No data'; for      *)
(* generate_statistics and for generate_instructor_statistics.             *)
C12_EmptySummaryFullyPopulated ==
    /\ (script = "daily" /\ HasSummary) =>
          /\ generate_statistics(None) = generate_statistics(EmptyFrame)
          /\ \A k \in {"total_meetings", "semester_total", "today_meetings",
                       "yesterday_meetings", "this_week_meetings", "last_7_days",
                       "active_courses", "unique_students", "days_active"} :
                generate_statistics(EmptyFrame)[k] = 0
          /\ generate_statistics(EmptyFrame).peak_hour = StrVal("N/A")
          /\ generate_statistics(EmptyFrame).most_recent = StrVal("No data")
          /\ generate_statistics(EmptyFrame).popular_meeting_type = "N/A"
          /\ generate_statistics(EmptyFrame).semester_start = StrVal("N/A")
          /\ DOMAIN generate_statistics(EmptyFrame) = DOMAIN cur.stats
    /\ (script = "weekly" /\ pc = "send") =>
          DOMAIN generate_instructor_statistics(
                     [instructor_groups[idx] EXCEPT !.data = <<>>]) = DOMAIN cur.stats

(* C13: generate_statistics only reads the record set: after the call the  *)
(* caller's record set has the rows and columns load_data returned, and    *)
(* these are the records send_email_report exports to CSV.                 *)
C13_AggregatorOnlyReads ==
    (script = "daily" /\ HasSummary) =>
        /\ df = load_data_daily(values, source).ret
        /\ send_email_report(cur.stats, df, files, "ok").csv_rows
             = load_data_daily(values, source).ret

(* C14: for a non-empty record set all of whose timestamps lie within the  *)
(* 24 hours before now, generate_statistics gives today_meetings equal to  *)
(* the number of records and yesterday_meetings equal to 0.                *)
C14_Last24HoursCountAsToday ==
    (script = "daily" /\ HasSummary
       /\ \A i \in 1..Len(df.rows) :
             Now - Day <= df.rows[i]["datetime"] /\ df.rows[i]["datetime"] <= Now) =>
        /\ cur.stats.today_meetings = Len(df.rows)
        /\ cur.stats.yesterday_meetings = 0

(* C15: for a non-empty record set days_active is the calendar date of     *)
(* the latest timestamp minus the calendar date of the earliest, in days,  *)
(* plus 1, whatever the times of day; it is 0 for the empty set.           *)
C15_DaysActiveByCalendarDate ==
    (script = "daily" /\ HasSummary) =>
        /\ cur.stats.days_active =
              DateOf(Max(Range(column(df, "datetime"))))
                - DateOf(Min(Range(column(df, "datetime")))) + 1
        /\ generate_statistics(EmptyFrame).days_active = 0

(* Both name columns are in the frame                                      *)
HasNames(d) ==
    {column_mapping.first_name, column_mapping.last_name} \subseteq d.columns

(* C16: unique_students is the number of distinct (first name, last name)  *)
(* pairs among the records, and 0 when a name column is absent; in         *)
(* generate_statistics and in the bundles of group_by_course_section.      *)
C16_UniqueStudentsAreDistinctPairs ==
    /\ (script = "daily" /\ HasSummary) =>
          cur.stats.unique_students =
              IF HasNames(df) THEN Cardinality(student_pairs(df.rows)) ELSE 0
    /\ (script = "weekly" /\ pc \in {"loop", "send"}) =>
          \A i \in 1..Len(instructor_groups) :
              instructor_groups[i].unique_students =
                  Cardinality(student_pairs(instructor_groups[i].data))
    /\ (script = "weekly" /\ pc = "group" /\ ~HasNames(weekly_df)
          /\ column_mapping.course \in weekly_df.columns) =>
          LET r == group_by_course_section(weekly_df, instructor_mappings)
          IN /\ ~r.raised
             /\ \A i \in 1..Len(r.groups) : r.groups[i].unique_students = 0

(* C17: popular_meeting_type is a meeting-type value with the highest      *)
(* record count, and it is 'N/A' when the meeting-type column is absent    *)
(* or its value is empty for every record.                                 *)
C17_PopularMeetingType ==
    (script = "daily" /\ HasSummary) =>
        IF column_mapping.meeting_type \notin df.columns
           \/ \A i \in 1..Len(df.rows) : df.rows[i][column_mapping.meeting_type] = ""
        THEN cur.stats.popular_meeting_type = "N/A"
        ELSE LET c == counts(column(df, column_mapping.meeting_type))
             IN /\ cur.stats.popular_meeting_type \in DOMAIN c
                /\ \A v \in DOMAIN c : c[v] <= c[cur.stats.popular_meeting_type]

(* The records of section sec in the bundles                               *)
BundledRecordsOf(groups, sec) ==
    UNION {{<<i, j>> : j \in {k \in 1..Len(groups[i].data) :
                                 groups[i].data[k][column_mapping.course] = sec}} :
           i \in 1..Len(groups)}

(* C18: every course section that occurs in the records and is no key of   *)
(* the instructor mapping is in the 'not configured' diagnostic of         *)
(* group_by_course_section, and no bundle holds a record of it.            *)
C18_UnmappedSectionsListedAndExcluded ==
    (script = "weekly" /\ pc \in {"loop", "send"}) =>
        \A sec \in Range(column(weekly_df, column_mapping.course)) :
            sec \notin DOMAIN instructor_mappings.map =>
                /\ sec \in missing_config
                /\ BundledRecordsOf(instructor_groups, sec) = {}

(* The instructor name a record's course section maps to, or "" when the   *)
(* section is empty or has no mapping                                      *)
InstructorOf(r) ==
    LET info == get_instructor_for_section(instructor_mappings,
                                           r[column_mapping.course])
    IN IF r[column_mapping.course] = "" \/ info = None THEN "" ELSE info.instructor

(* How many times record r is in the sequence rows                         *)
Occurrences(rows, r) == Cardinality({k \in 1..Len(rows) : rows[k] = r})

(* C19: after group_by_course_section the bundle of instructor I holds     *)
(* exactly the records whose section maps to I, each once; its 'sections'  *)
(* are the sections of these records, none twice; total_meetings is the    *)
(* number of its records; and an instructor has one bundle, whatever the   *)
(* number of sections mapped to that name.                                 *)
C19_BundlesHoldTheInstructorsRecords ==
    (script = "weekly" /\ pc \in {"loop", "send"}) =>
        /\ \A i \in 1..Len(instructor_groups) :
              LET g == instructor_groups[i]
              IN /\ \A r \in Range(weekly_df.rows) \cup Range(g.data) :
                        Occurrences(g.data, r) =
                            IF InstructorOf(r) = g.name
                            THEN Occurrences(weekly_df.rows, r) ELSE 0
                 /\ Range(g.sections) =
                        {r[column_mapping.course] : r \in Range(g.data)}
                 /\ Cardinality(Range(g.sections)) = Len(g.sections)
                 /\ g.total_meetings = Len(g.data)
        /\ \A i, j \in 1..Len(instructor_groups) :
              instructor_groups[i].name = instructor_groups[j].name => i = j
        /\ \A r \in Range(weekly_df.rows) :
              InstructorOf(r) /= "" =>
                  \E i \in 1..Len(instructor_groups) :
                      instructor_groups[i].name = InstructorOf(r)

C19_TwoSectionsMergedIntoOneBundle ==
    /\ script = "weekly" /\ pc = "loop"
    /\ \E i \in 1..Len(instructor_groups) :
          /\ Len(instructor_groups[i].sections) = 2
          /\ instructor_groups[i].total_meetings = 2
    /\ \E c \in DOMAIN instructor_mappings.map, e \in DOMAIN instructor_mappings.map :
          c /= e /\ instructor_mappings.map[c].instructor
                      = instructor_mappings.map[e].instructor

(* The records of a frame in another order                                 *)
Reorderings(d) ==
    {DataFrame([i \in 1..Len(d.rows) |-> d.rows[p[i]]], d.columns) :
        p \in Permutations(1..Len(d.rows))}

(* The bundles without their order: per instructor key, the multiset of    *)
(* records and the set of sections                                         *)
Membership(groups) ==
    {[name |-> groups[i].name,
      records |-> [r \in Range(groups[i].data) |-> Occurrences(groups[i].data, r)],
      sections |-> Range(groups[i].sections)] : i \in 1..Len(groups)}

(* C20: in whatever order the records bring the section keys,              *)
(* group_by_course_section yields the same instructor keys and, for each   *)
(* instructor, the same multiset of records and the same set of sections.  *)
C20_GroupingCommutesOverSectionOrder ==
    (script = "weekly" /\ pc \in {"loop", "send"}) =>
        \A d \in Reorderings(weekly_df) :
            LET r == group_by_course_section(d, instructor_mappings)
            IN /\ ~r.raised
               /\ Membership(r.groups) = Membership(instructor_groups)

C20_OrderChangesOnlyTheSequence ==
    /\ script = "weekly" /\ pc = "loop"
    /\ Len(instructor_groups) = 2
    /\ \E d \in Reorderings(weekly_df) :
          group_by_course_section(d, instructor_mappings).groups /= instructor_groups

(* The daily load_data went past its checks of the sheet: the source was   *)
(* read, there are data rows, and the date and time columns exist          *)
DailyParsed ==
    /\ script = "daily" /\ source = "ok" /\ pc \notin {"start", "run"}
    /\ Len(values) >= 2
    /\ {column_mapping.date, column_mapping.time} \subseteq values[1]

(* Row j of the loaded records is sheet row i, its date and time trimmed   *)
LoadedFrom(j, i) ==
    restrict(df.rows[j], values[1]) = strip_date_time(values[i])

EmptyDateTokens == {"", "nan", "None", "NaN"}

(* C21: a sheet row whose date, once trimmed, is empty or one of nan,      *)
(* None, NaN is in no case among the records the daily load_data returns,  *)
(* whatever its other cells hold; a row with any other date reaches the    *)
(* parser, and is among the records returned whenever its timestamp was    *)
(* read.                                                                   *)
C21_EmptyDatesFilteredOut ==
    DailyParsed =>
        LET parsed == parsed_rows_daily(Tail(values)) IN
        \A i \in 2..Len(values) :
            IF strip(values[i][column_mapping.date]) \in EmptyDateTokens
            THEN ~\E j \in 1..len(df) : LoadedFrom(j, i)
            ELSE \E k \in 1..Len(parsed) :
                    /\ restrict(parsed[k], values[1]) = strip_date_time(values[i])
                    /\ parsed[k]["datetime"] /= NaT =>
                           \E j \in 1..len(df) : LoadedFrom(j, i)

(* A sheet with a 'nan' between blanks and a dated row: only the second    *)
(* is returned                                                             *)
C21_NanBetweenBlanksFiltered ==
    /\ DailyParsed
    /\ \E i \in 2..Len(values) : values[i][column_mapping.date] = " nan "
    /\ len(df) = 1
    /\ Len(values) = 3

(* The day number and the minute of the day the strict format reads        *)
DayOf(d) == (CHOOSE e \in MdyDates : e[1] = d)[2]
MinuteOf(t) == (CHOOSE e \in HmTimes : e[1] = t)[2]

(* C22: a sheet row whose trimmed date is in the primary format and whose  *)
(* trimmed time is empty is among the records the daily load_data returns, *)
(* with the timestamp 00:00 of that date; the text parsed is the date, one *)
(* space, and the time, '00:00' standing in only for an empty time, so a   *)
(* row with a time of its own keeps that time of day.                      *)
C22_EmptyTimeIsMidnight ==
    DailyParsed =>
        /\ \A i \in 2..Len(values) :
              LET d == strip(values[i][column_mapping.date])
                  t == strip(values[i][column_mapping.time])
              IN /\ (d \in {e[1] : e \in MdyDates} /\ t = "") =>
                        \E j \in 1..len(df) :
                            /\ LoadedFrom(j, i)
                            /\ df.rows[j]["datetime"] = DayOf(d) * Day
                 /\ (d \in {e[1] : e \in MdyDates} /\ t \in {e[1] : e \in HmTimes}) =>
                        \E j \in 1..len(df) :
                            /\ LoadedFrom(j, i)
                            /\ df.rows[j]["datetime"] = DayOf(d) * Day + MinuteOf(t)
        /\ LET parsed == parsed_rows_daily(Tail(values)) IN
           \A k \in 1..Len(parsed) :
              parsed[k]["date_time_str"] =
                  IF parsed[k][column_mapping.time] = ""
                  THEN parsed[k][column_mapping.date] \o " 00:00"
                  ELSE parsed[k][column_mapping.date] \o " "
                           \o parsed[k][column_mapping.time]

(* A time cell of blanks next to a date: the record is kept at midnight,   *)
(* beside a record with a time of its own                                  *)
C22_BlankTimeKeptAtMidnight ==
    /\ DailyParsed
    /\ \E i \in 2..Len(values) :
          /\ values[i][column_mapping.time] = "  "
          /\ \E j \in 1..len(df) :
                LoadedFrom(j, i) /\ df.rows[j]["datetime"] = 16 * Day
    /\ \E j \in 1..len(df) : df.rows[j]["datetime"] = 15 * Day + 14 * 60 + 30

(* The weekly load_data went past its checks: the mapping was loaded, the  *)
(* source was read, there are data rows and a date column                  *)
WeeklyParsed ==
    /\ script = "weekly" /\ source = "ok" /\ pc \notin {"start", "run", "load"}
    /\ ~falsy(instructor_mappings)
    /\ Len(values) >= 2
    /\ column_mapping.date \in values[1]

(* The text the weekly load_data parses for a row (lines 185, 189)         *)
datetime_text_weekly(r) ==
    IF column_mapping.time \in DOMAIN r
    THEN r[column_mapping.date] \o " " \o r[column_mapping.time]
    ELSE r[column_mapping.date]

(* C23: the timestamp of a row is decided by the row alone: the strict     *)
(* parse where it reads the text, else the lenient parse of that text; a   *)
(* row neither reads is absent from the records returned, and every other  *)
(* row is returned with its own timestamp whatever rows stand beside it.   *)
(* In the weekly load_data the same holds of its single lenient parse.     *)
C23_RowLevelFallback ==
    /\ DailyParsed =>
          \A i \in 2..Len(values) :
              LET r == strip_date_time(values[i])
                  t == parse_daily(date_time_str(r))
              IN date_not_empty(r) =>
                    IF t = NaT
                    THEN ~\E j \in 1..len(df) : LoadedFrom(j, i)
                    ELSE \E j \in 1..len(df) :
                            LoadedFrom(j, i) /\ df.rows[j]["datetime"] = t
    /\ WeeklyParsed =>
          \A i \in 2..Len(values) :
              LET t == flexible_parse(datetime_text_weekly(values[i]))
              IN IF t = NaT
                 THEN ~\E j \in 1..len(df) :
                         restrict(df.rows[j], values[1]) = values[i]
                 ELSE \E j \in 1..len(df) :
                         /\ restrict(df.rows[j], values[1]) = values[i]
                         /\ df.rows[j]["datetime"] = t

(* The number of loaded records whose timestamp falls in hour h            *)
RecordsInHour(h) ==
    Cardinality({i \in 1..len(df) : HourOf(df.rows[i]["datetime"]) = h})

(* C24: the peak_hour of the summary of a non-empty record set is an hour  *)
(* of 0..23 with the greatest number of records, the lowest such hour      *)
(* when several have that number; for the empty set it is 'N/A'.           *)
C24_PeakHourLowestOfTheBusiest ==
    /\ generate_statistics(EmptyFrame).peak_hour = StrVal("N/A")
    /\ (script = "daily" /\ HasSummary) =>
          \E h \in 0..23 :
              /\ cur.stats.peak_hour = IntVal(h)
              /\ \A g \in 0..23 : RecordsInHour(g) <= RecordsInHour(h)
              /\ \A g \in 0..(h - 1) : RecordsInHour(g) < RecordsInHour(h)

(* Two hours with one record each, the later hour first in the sheet: the  *)
(* peak is the earlier hour                                                *)
C24_TieGoesToEarlierHour ==
    /\ script = "daily" /\ HasSummary
    /\ len(df) = 2
    /\ HourOf(df.rows[1]["datetime"]) = 14
    /\ HourOf(df.rows[2]["datetime"]) = 9
    /\ cur.stats.peak_hour = IntVal(9)

(* instructor_mappings.csv as the run found it cannot be used              *)
CsvUnusable ==
    \/ config_at_start[1].state /= "ok"
    \/ csv_first_raise(config_at_start[1].rows) /= 0

(* C25: once the reporter is constructed its instructor_mappings is a      *)
(* mapping, never None; and when instructor_mappings.csv was absent or     *)
(* failed to load while instructor_mappings.json was readable, it is the   *)
(* course_mappings of the JSON file.                                       *)
C25_CsvPreferredJsonFallback ==
    (script = "weekly" /\ pc /= "start") =>
        /\ ~IsNone(instructor_mappings)
        /\ (CsvUnusable /\ config_at_start[2].state = "ok") =>
               instructor_mappings = Dict(config_at_start[2].course_mappings)

(* The timestamp an entry of the meeting list shows: its date and time     *)
ShownTimestamp(m) == m.date * Day + m.time

(* C26: the meeting list built for a bundle has one entry per record of    *)
(* the bundle, most recent first: of two entries, the one with the later   *)
(* date and time stands earlier in the list.                               *)
C26_MeetingListMostRecentFirst ==
    (script = "weekly" /\ pc = "send") =>
        /\ Len(cur.meetings_list) = Len(instructor_groups[idx].data)
        /\ \A i, j \in 1..Len(cur.meetings_list) :
              ShownTimestamp(cur.meetings_list[i]) > ShownTimestamp(cur.meetings_list[j])
                  => i < j

(* C27: a section reported in the 'sections in data but not configured'    *)
(* diagnostic has no record in any instructor's bundle; a section whose    *)
(* records were bundled, be it matched only after trimming, is not         *)
(* reported.                                                               *)
C27_ReportedSectionsAreUnbundled ==
    (script = "weekly" /\ pc \in {"loop", "send"}) =>
        \A sec \in missing_config : BundledRecordsOf(instructor_groups, sec) = {}

(* create_instructor_email_body, lines 526-527: the semester the email     *)
(* body shows                                                              *)
semester_info(metadata) ==
    IF "semester" \in DOMAIN metadata THEN metadata["semester"]
    ELSE "Current Semester"

(* The reporter was constructed from instructor_mappings.json              *)
ConstructedFromJson ==
    /\ script = "weekly" /\ pc /= "start"
    /\ config_at_start[1].state = "absent"
    /\ config_at_start[2].state = "ok"

(* C28: once the reporter is constructed from a JSON config file,          *)
(* config_metadata holds the semester and last_updated of that file, and   *)
(* the semester an instructor email shows is the file's, not the default   *)
(* 'Current Semester'.                                                     *)
C28_JsonMetadataKept ==
    ConstructedFromJson =>
        /\ DOMAIN config_metadata = {"semester", "last_updated"}
        /\ semester_info(config_metadata) = config_at_start[2].semester

(* C29: the daily run logs 'Daily report completed' only when the report   *)
(* email was handed to the mail server; a run whose send_email_report      *)
(* failed does not end with it.                                            *)
C29_CompletedOnlyAfterHandOver ==
    (script = "daily" /\ Logged("info", "Daily report completed")) =>
        /\ outbox /= <<>>
        /\ ~Logged("error", "Failed to send email")

(* C30: the weekly run attempts a send only when the mapping is not empty, *)
(* load_data returned records, their last-7-days subset is not empty and   *)
(* the grouping made a bundle; the attempts are one per bundle, in the     *)
(* order of the bundles and to the bundle's own address, so no bundle has  *)
(* two; and no record of a bundle is older than now minus 7 days.          *)
C30_SendsOnlyAfterPreconditions ==
    script = "weekly" =>
        /\ attempts /= <<>> =>
              /\ ~falsy(instructor_mappings)
              /\ ~IsNone(df) /\ ~IsNone(weekly_df) /\ ~empty(weekly_df)
              /\ instructor_groups /= <<>>
        /\ Len(attempts) <= Len(instructor_groups)
        /\ \A i \in 1..Len(attempts) :
              /\ attempts[i].msg.instructor = instructor_groups[i].name
              /\ attempts[i].msg.to = instructor_groups[i].email
        /\ \A i, j \in 1..Len(instructor_groups) :
              instructor_groups[i].name = instructor_groups[j].name => i = j
        /\ \A i \in 1..Len(instructor_groups) :
              \A k \in 1..Len(instructor_groups[i].data) :
                  instructor_groups[i].data[k]["datetime"] >= Now - 7 * Day

(* A run that attempted its one bundle, from a sheet where a record of the *)
(* same section is an hour older than seven days and was left out          *)
C30_OldRecordLeftOutOfTheBundle ==
    /\ script = "weekly" /\ pc = "done"
    /\ Len(attempts) = 1 /\ Len(instructor_groups) = 1
    /\ \E k \in 1..len(df) :
          /\ df.rows[k]["datetime"] < Now - 7 * Day
          /\ InstructorOf(df.rows[k]) = instructor_groups[1].name
    /\ Len(instructor_groups[1].data) = 1

====
